---- MODULE Spec2Model ----
(***************************************************************************)
(* State-machine model of the table utilities of kraft/dataframe.py        *)
(* (error_axes, drop_axis_label, drop_axes_label, sync_axis, pivot) and of *)
(* the Onco-GPS map renderer of ccal/visualize.py (plot_onco_gps).         *)
(*                                                                         *)
(* Each function is run by its own specification (SpecDrop, SpecPivot,     *)
(* SpecSync, SpecAxes, SpecOnco); the variables of the functions a         *)
(* specification does not run stay at their idle values.                   *)
(***************************************************************************)
EXTENDS Integers, Sequences, FiniteSets, TLC

VARIABLES
  \* ---- drop_axes_label (kraft/dataframe.py) ----
  cell,          \* the cells of the input table, by (row label, column label)
  dfRows,        \* row labels of `dataframe` (in label order)
  dfCols,        \* column labels of `dataframe`
  mgv,           \* min_good_value: None or a number <<num, den>>
  mguv,          \* min_good_unique_value: None or a number <<num, den>>
  axis,          \* the axis of the next pass
  can_return,    \* drop_axes_label's flag
  shape_before,  \* drop_axes_label's shape_before
  dpc,           \* "idle", "loop", "returned", "raised"
  call,          \* 1: first application, 2: application to the first result
  passes,        \* passes of drop_axis_label made by the current application
  first,         \* what the first application returned: <<rows, cols>>
  \* ---- pivot (kraft/dataframe.py) ----
  triples,       \* the rows of dataframe.loc[:, [axis_0, axis_1, value]]
  function,      \* the reducer: None, "add" or "first"
  axis_0_labels, \* unique row keys, sorted
  axis_1_labels, \* unique column keys, sorted
  matrix,        \* the matrix being filled, by <<axis_0_i, axis_1_i>>
  pk,            \* the triple the for loop is at
  ppc,           \* "idle", "loop", "returned", "raised"
  \* ---- sync_axis (kraft/dataframe.py) ----
  dataframes,    \* the tables, each by its labels on the synced axis
  method,        \* "union", "intersection" or another string
  labels,        \* sync_axis's labels
  synced,        \* the tables reindexed so far
  spc,           \* "idle", "labels", "reindex", "returned", "raised"
  \* ---- error_axes (kraft/dataframe.py) ----
  frame,         \* <<row labels, column labels>> of the table checked
  epc,           \* "idle", "index", "columns", "passed", "raised"
  \* ---- plot_onco_gps (ccal/visualize.py): arguments ----
  component_coordinates,      \* the components' <<x, y>>, in order
  component_text_position,    \* "auto", "top", "bottom" or another string
  grid_shape,                 \* grid_probabilities.shape
  grid_probabilities,         \* by <<i, j>>
  grid_states,                \* by <<i, j>>
  states,                     \* samples.ix[:, 'state']
  annotations,                \* the annotation values, or <<>>
  annotation_type,            \* "continuous", "categorical", "binary" or another
  background_markersize,
  background_mask_markersize,
  n_contours,
  boundary,      \* the points on the hull's boundary that contains_point accepts
  \* ---- plot_onco_gps: locals and what is drawn ----
  x_grids,
  y_grids,
  convexhull_region, \* the hull's edges
  component_text_verticalshift,
  texts,         \* the component labels drawn: their <<x, y>>
  layers,        \* the <<kind of element, zorder>> drawn on ax_map
  states_color,  \* the state -> colour table
  backgrounds,   \* the background squares: <<i, j>> -> [c, a]
  masks,         \* the cells <<i, j>> drawn as mask squares
  markers,       \* the sample markers drawn: how each was coloured
  legend,        \* "none", "effect" (violin/box plot) or "states" (swatches)
  opc,           \* the stage plot_onco_gps is at; "done", "raised"
  oerr           \* the exception raised

dropVars == <<cell, dfRows, dfCols, mgv, mguv, axis, can_return, shape_before,
              dpc, call, passes, first>>

pivotVars == <<triples, function, axis_0_labels, axis_1_labels, matrix, pk, ppc>>

syncVars == <<dataframes, method, labels, synced, spc>>
axesVars == <<frame, epc>>

oncoArgs == <<component_coordinates, component_text_position, grid_shape,
              grid_probabilities, grid_states, states, annotations,
              annotation_type, background_markersize, background_mask_markersize,
              n_contours, boundary>>
oncoDrawn == <<x_grids, y_grids, convexhull_region, component_text_verticalshift, texts, layers,
               states_color, backgrounds, masks, markers, legend>>
oncoVars == <<oncoArgs, oncoDrawn, opc, oerr>>

vars == <<dropVars, pivotVars, syncVars, axesVars, oncoVars>>

(***************************************************************************)
(* Values.  NaN is the missing value (data values are 0, 1, 2, ...); None *)
(* is Python's None; NoError says that nothing was raised.                 *)
(***************************************************************************)
NaN == -1
None == <<>>
NoError == "none"

Card(S) == Cardinality(S)

\* ------------------------------------------------------------------------
\* drop_axis_label / drop_axes_label
\* ------------------------------------------------------------------------
MaxRows == 2
MaxCols == 2

CellValues == {NaN, 1, 2}

\* A threshold is None or the number num/den: 1/2 and 3/4 are fractions
\* (< 1), 1 and 2 are counts.  The settings are <<min_good_value,
\* min_good_unique_value>>.
ThresholdSettings ==
  { <<None, None>>,
    <<(<<1, 2>>), None>>, <<(<<3, 4>>), None>>, <<(<<1, 1>>), None>>,
    <<(<<2, 1>>), None>>, <<None, (<<1, 2>>)>>, <<None, (<<2, 1>>)>>,
    <<(<<1, 2>>), (<<2, 1>>)>>, <<(<<0, 1>>), None>> }
\* the axis argument: None, or <<a>> for axis a
AxisArguments == {None, <<0>>, <<1>>}

\* the vector drop_axis_label hands to the lambda for label l
Vector(rows, cols, ax, l) ==
  IF ax = 0 THEN [c \in cols |-> cell[<<l, c>>]]
            ELSE [r \in rows |-> cell[<<r, l>>]]

\* (~isna(vector)).sum()
GoodCount(v) == Card({k \in DOMAIN v : v[k] # NaN})

\* unique(vector[~isna(vector)]).size
GoodUniqueCount(v) == Card({v[k] : k \in DOMAIN v} \ {NaN})

\* threshold <= count, after `if threshold < 1: threshold = threshold * n`
\* (num/den < 1 iff num < den; num/den * n <= count iff num * n <= count * den)
ThresholdMet(th, n, count) ==
  IF th[1] < th[2] THEN th[1] * n <= count * th[2]
                   ELSE th[1] <= count * th[2]

\* numpy.apply_along_axis raises ValueError ("Cannot apply_along_axis when
\* any iteration dimensions are 0") when there is no vector to apply to
ApplyRaises(rows, cols, ax) ==
  IF ax = 0 THEN rows = {} ELSE cols = {}

\* faulty variant: the length of the opposite axis of the input table
OppositeLength_OfInput(rows, cols, ax) ==
  IF ax = 0 THEN Card({rc[2] : rc \in DOMAIN cell})
            ELSE Card({rc[1] : rc \in DOMAIN cell})

\* shape_before[axis_apply] (lines 57 and 67): the length of the opposite
\* axis of the table drop_axis_label was handed
OppositeLength(rows, cols, ax) ==
  IF ax = 0 THEN Card(cols) ELSE Card(rows)

\* is_kept for label l of axis ax
IsKept(rows, cols, ax, l, gv, guv) ==
  LET n == OppositeLength(rows, cols, ax)
      v == Vector(rows, cols, ax, l)
  IN  /\ (gv # None => ThresholdMet(gv, n, GoodCount(v)))
      /\ (guv # None => ThresholdMet(guv, n, GoodUniqueCount(v)))

\* drop_axis_label: the labels kept, or a raise
drop_axis_label(rows, cols, ax, gv, guv) ==
  IF gv = None /\ guv = None
  THEN [raised |-> "AssertionError", rows |-> rows, cols |-> cols]
  ELSE IF ApplyRaises(rows, cols, ax)
  THEN [raised |-> "ValueError", rows |-> rows, cols |-> cols]
  ELSE IF ax = 0
  THEN [raised |-> NoError,
        rows |-> {l \in rows : IsKept(rows, cols, 0, l, gv, guv)},
        cols |-> cols]
  ELSE [raised |-> NoError,
        rows |-> rows,
        cols |-> {l \in cols : IsKept(rows, cols, 1, l, gv, guv)}]

Shape(rows, cols) == <<Card(rows), Card(cols)>>

\* int(shape_before[0] < shape_before[1])
DefaultAxis(shape) == IF shape[1] < shape[2] THEN 1 ELSE 0

\* The passes treat all rows alike, so the input tables are taken up to the
\* order of their rows: row r is at most row r + 1, cell by cell from the left.
RowsInOrder(f, nr, nc) ==
  \A r \in 1..(nr - 1) :
    \A c \in 1..nc :
      (\A b \in 1..(c - 1) : f[<<r, b>>] = f[<<r + 1, b>>])
         => f[<<r, c>>] <= f[<<r + 1, c>>]

DropIdle ==
  /\ cell = <<>> /\ dfRows = {} /\ dfCols = {} /\ mgv = None /\ mguv = None
  /\ axis = 0 /\ can_return = FALSE /\ shape_before = <<0, 0>>
  /\ dpc = "idle" /\ call = 0 /\ passes = 0 /\ first = <<{}, {}>>

PivotIdle ==
  /\ triples = <<>> /\ function = None /\ axis_0_labels = <<>>
  /\ axis_1_labels = <<>> /\ matrix = <<>> /\ pk = 0 /\ ppc = "idle"

SyncIdle ==
  /\ dataframes = <<>> /\ method = "" /\ labels = <<>> /\ synced = <<>>
  /\ spc = "idle"

AxesIdle == frame = <<>> /\ epc = "idle"

OncoIdle ==
  /\ component_coordinates = <<>> /\ component_text_position = ""
  /\ grid_shape = <<0, 0>> /\ grid_probabilities = <<>> /\ grid_states = <<>>
  /\ states = <<>> /\ annotations = <<>> /\ annotation_type = ""
  /\ background_markersize = 0 /\ background_mask_markersize = 0
  /\ n_contours = 0 /\ boundary = {}
  /\ x_grids = <<>> /\ y_grids = <<>> /\ convexhull_region = {}
  /\ component_text_verticalshift = 0
  /\ texts = <<>> /\ layers = {} /\ states_color = <<>> /\ backgrounds = <<>>
  /\ masks = {} /\ markers = <<>> /\ legend = "none"
  /\ opc = "idle" /\ oerr = NoError

\* drop_axes_label(dataframe, axis, ...) up to the loop
InitDrop ==
  /\ PivotIdle /\ SyncIdle /\ AxesIdle /\ OncoIdle
  /\ \E nr \in 0..MaxRows, nc \in 0..MaxCols :
       /\ dfRows = 1..nr
       /\ dfCols = 1..nc
       /\ cell \in [(1..nr) \X (1..nc) -> CellValues]
       /\ RowsInOrder(cell, nr, nc)
  /\ \E t \in ThresholdSettings : mgv = t[1] /\ mguv = t[2]
  /\ \E a \in AxisArguments :
       axis = IF a = None THEN DefaultAxis(Shape(dfRows, dfCols)) ELSE a[1]
  /\ can_return = FALSE
  /\ shape_before = Shape(dfRows, dfCols)
  /\ dpc = "loop"
  /\ call = 1
  /\ passes = 0
  /\ first = <<{}, {}>>

\* faulty variant: returning without having tried both axes
MayReturn_AfterOnePass(ready, before, after) == before = after

\* `if can_return and shape_before == shape_after:` (line 111)
MayReturn(ready, before, after) == ready /\ before = after

\* one iteration of drop_axes_label's while loop
DropPass ==
  /\ dpc = "loop"
  /\ LET r == drop_axis_label(dfRows, dfCols, axis, mgv, mguv)
         shape_after == Shape(r.rows, r.cols)
     IN  /\ passes' = passes + 1
         /\ dfRows' = r.rows
         /\ dfCols' = r.cols
         /\ IF r.raised # NoError
            THEN /\ dpc' = "raised"
                 /\ UNCHANGED <<axis, can_return, shape_before>>
            ELSE IF MayReturn(can_return, shape_before, shape_after)
            THEN /\ dpc' = "returned"
                 /\ UNCHANGED <<axis, can_return, shape_before>>
            ELSE /\ dpc' = "loop"
                 /\ shape_before' = shape_after
                 /\ axis' = 1 - axis
                 /\ can_return' = TRUE
  /\ UNCHANGED <<cell, mgv, mguv, call, first>>
  /\ UNCHANGED <<pivotVars, syncVars, axesVars, oncoVars>>

\* drop_axes_label applied, with the same thresholds, to what it returned
DropAgain ==
  /\ dpc = "returned"
  /\ call = 1
  /\ call' = 2
  /\ first' = <<dfRows, dfCols>>
  /\ \E a \in AxisArguments :
       axis' = IF a = None THEN DefaultAxis(Shape(dfRows, dfCols)) ELSE a[1]
  /\ can_return' = FALSE
  /\ shape_before' = Shape(dfRows, dfCols)
  /\ passes' = 0
  /\ dpc' = "loop"
  /\ UNCHANGED <<cell, dfRows, dfCols, mgv, mguv>>
  /\ UNCHANGED <<pivotVars, syncVars, axesVars, oncoVars>>

NextDrop == DropPass \/ DropAgain

SpecDrop == InitDrop /\ [][NextDrop]_vars

\* ------------------------------------------------------------------------
\* pivot
\* ------------------------------------------------------------------------
MaxTriples == 3

RowKeys == {1, 2}
ColKeys == {1, 2}
PivotValues == {NaN, 1, 2}
\* the reducers tried: none given, addition, "keep the existing value"
Reducers == {None, <<"add">>, <<"first">>}

\* numpy.unique of a collection of labels: the distinct labels, sorted
Unique(S) ==
  CHOOSE q \in [1..Card(S) -> S] : \A i, j \in 1..Card(S) : i < j => q[i] < q[j]

\* kraft.array.map_int(objects)[0]: each object's position, from 0
map_int(objects) ==
  [l \in {objects[i] : i \in DOMAIN objects} |->
     (CHOOSE i \in DOMAIN objects : objects[i] = l) - 1]

\* function(value_now, value); a NaN operand makes a sum NaN
Apply(f, a, b) ==
  IF f = <<"add">> THEN (IF a = NaN \/ b = NaN THEN NaN ELSE a + b)
  ELSE a

\* pivot(dataframe, axis_0, axis_1, value, function) up to the for loop
InitPivot ==
  /\ DropIdle /\ SyncIdle /\ AxesIdle /\ OncoIdle
  /\ \E n \in 0..MaxTriples :
       triples \in [1..n -> RowKeys \X ColKeys \X PivotValues]
  /\ function \in Reducers
  /\ axis_0_labels = Unique({triples[i][1] : i \in DOMAIN triples})
  /\ axis_1_labels = Unique({triples[i][2] : i \in DOMAIN triples})
  /\ matrix = [ij \in (0..(Len(axis_0_labels) - 1)) \X (0..(Len(axis_1_labels) - 1))
                 |-> NaN]
  /\ pk = 1
  /\ ppc = "loop"

\* one iteration of pivot's for loop
PivotStep ==
  /\ ppc = "loop"
  /\ pk <= Len(triples)
  /\ LET axis_0_i == map_int(axis_0_labels)[triples[pk][1]]
         axis_1_i == map_int(axis_1_labels)[triples[pk][2]]
         value == triples[pk][3]
         value_now == matrix[<<axis_0_i, axis_1_i>>]
     IN  IF value_now = NaN
         THEN /\ matrix' = [matrix EXCEPT ![<<axis_0_i, axis_1_i>>] = value]
              /\ pk' = pk + 1
              /\ ppc' = "loop"
         ELSE IF function = None
         THEN /\ ppc' = "raised"
              /\ UNCHANGED <<matrix, pk>>
         ELSE /\ matrix' = [matrix EXCEPT ![<<axis_0_i, axis_1_i>>] =
                              Apply(function, value_now, value)]
              /\ pk' = pk + 1
              /\ ppc' = "loop"
  /\ UNCHANGED <<triples, function, axis_0_labels, axis_1_labels>>
  /\ UNCHANGED <<dropVars, syncVars, axesVars, oncoVars>>

\* return DataFrame(matrix, index=axis_0_labels, columns=axis_1_labels)
PivotReturn ==
  /\ ppc = "loop"
  /\ pk > Len(triples)
  /\ ppc' = "returned"
  /\ UNCHANGED <<triples, function, axis_0_labels, axis_1_labels, matrix, pk>>
  /\ UNCHANGED <<dropVars, syncVars, axesVars, oncoVars>>

NextPivot == PivotStep \/ PivotReturn

SpecPivot == InitPivot /\ [][NextPivot]_vars

\* ------------------------------------------------------------------------
\* sync_axis
\* ------------------------------------------------------------------------
MaxTables == 2
MaxAxisLen == 2
MaxLabel == 3

Labels == 1..MaxLabel

\* The label lists of a table's axis.  Neither method depends on the order
\* of a table's labels, so the lists are taken in non-decreasing order; a
\* label may occur more than once.
AxisLabelLists ==
  UNION { { q \in [1..n -> Labels] : \A i \in 1..(n - 1) : q[i] <= q[i + 1] }
          : n \in 0..MaxAxisLen }

Methods == {"union", "intersection", "outer"}

SetOf(q) == {q[i] : i \in DOMAIN q}

\* how many times label l occurs in the list q
Count(q, l) == Card({i \in DOMAIN q : q[i] = l})

\* the label lists of the tables 1..n, concatenated
RECURSIVE Concatenated(_, _)
Concatenated(dfs, n) ==
  IF n = 0 THEN <<>> ELSE Concatenated(dfs, n - 1) \o dfs[n]

\* faulty variant: union that never runs the loop over dataframes[1:]
UnionLabels_FirstOnly(dfs) ==
  Unique(SetOf(dfs[1]))

\* method == "union": the sorted union of the tables' label sets
UnionLabels(dfs) ==
  Unique(UNION {SetOf(dfs[k]) : k \in DOMAIN dfs})

\* faulty variant: intersection without the counts == len(dataframes) filter
IntersectionLabels_NoCountFilter(dfs) ==
  Unique(SetOf(Concatenated(dfs, Len(dfs))))

\* method == "intersection": the labels that occur len(dataframes) times
\* in the concatenated label lists
IntersectionLabels(dfs) ==
  LET all == Concatenated(dfs, Len(dfs))
  IN  Unique({l \in SetOf(all) : Count(all, l) = Len(dfs)})

\* pandas: an axis with duplicate labels cannot be reindexed
HasDuplicates(q) == \E l \in SetOf(q) : Count(q, l) > 1

\* dataframe.reindex(labels, axis=axis): the axis becomes `labels`; the
\* labels the table does not have get missing values
Reindexed(q, target) ==
  [axis |-> target, filled |-> SetOf(q) \cap SetOf(target)]

InitSync ==
  /\ DropIdle /\ PivotIdle /\ AxesIdle /\ OncoIdle
  /\ \E n \in 0..MaxTables : dataframes \in [1..n -> AxisLabelLists]
  /\ method \in Methods
  /\ labels = <<>>
  /\ synced = <<>>
  /\ spc = "labels"

\* sync_axis up to print(labels.size)
SyncLabels ==
  /\ spc = "labels"
  /\ IF method \notin {"union", "intersection"}
     THEN \* labels is never bound: print(labels.size) raises
          /\ spc' = "raised"
          /\ UNCHANGED labels
     ELSE IF Len(dataframes) = 0
     THEN \* dataframes[0] raises IndexError
          /\ spc' = "raised"
          /\ UNCHANGED labels
     ELSE /\ labels' = IF method = "union" THEN UnionLabels(dataframes)
                                           ELSE IntersectionLabels(dataframes)
          /\ spc' = "reindex"
  /\ UNCHANGED <<dataframes, method, synced>>
  /\ UNCHANGED <<dropVars, pivotVars, axesVars, oncoVars>>

\* the next dataframe.reindex(labels, axis=axis) of the returned tuple.
\* pandas raises ValueError for a table with duplicate labels on the axis;
\* pandas before 1.4 does not when `labels` is empty.
SyncReindex ==
  /\ spc = "reindex"
  /\ Len(synced) < Len(dataframes)
  /\ LET df == dataframes[Len(synced) + 1]
     IN  \E lenient \in BOOLEAN :
           IF HasDuplicates(df) /\ ~(lenient /\ labels = <<>>)
           THEN /\ spc' = "raised"
                /\ UNCHANGED synced
           ELSE /\ synced' = Append(synced, Reindexed(df, labels))
                /\ spc' = "reindex"
  /\ UNCHANGED <<dataframes, method, labels>>
  /\ UNCHANGED <<dropVars, pivotVars, axesVars, oncoVars>>

\* the tuple is complete: return
SyncReturn ==
  /\ spc = "reindex"
  /\ Len(synced) = Len(dataframes)
  /\ spc' = "returned"
  /\ UNCHANGED <<dataframes, method, labels, synced>>
  /\ UNCHANGED <<dropVars, pivotVars, axesVars, oncoVars>>

NextSync == SyncLabels \/ SyncReindex \/ SyncReturn

SpecSync == InitSync /\ [][NextSync]_vars

\* ------------------------------------------------------------------------
\* error_axes
\* ------------------------------------------------------------------------
MaxFrameLen == 2

\* the label lists of an axis checked by error_axes: a label may be missing
\* (NaN) and may occur more than once
FrameLabelLists ==
  UNION { [1..n -> {NaN} \cup Labels] : n \in 0..MaxFrameLen }

InitAxes ==
  /\ DropIdle /\ PivotIdle /\ SyncIdle /\ OncoIdle
  /\ frame \in FrameLabelLists \X FrameLabelLists
  /\ epc = "index"

\* faulty variant: error_axes without the assertion on the counts
AssertionsHold_NoCounts(q) ==
  ~(\E l \in SetOf(q) : l = NaN)

\* the two assertions of error_axes on one list of labels
AssertionsHold(q) ==
  /\ ~(\E l \in SetOf(q) : l = NaN)
  /\ \A l \in SetOf(q) : Count(q, l) = 1

\* one iteration of error_axes's for loop: the index, then the columns
ErrorAxesCheck ==
  /\ epc \in {"index", "columns"}
  /\ LET q == IF epc = "index" THEN frame[1] ELSE frame[2]
     IN  IF ~AssertionsHold(q) THEN epc' = "raised"
         ELSE IF epc = "index" THEN epc' = "columns"
         ELSE epc' = "passed"
  /\ UNCHANGED frame
  /\ UNCHANGED <<dropVars, pivotVars, syncVars, oncoVars>>

NextAxes == ErrorAxesCheck

SpecAxes == InitAxes /\ [][NextAxes]_vars

\* ------------------------------------------------------------------------
\* plot_onco_gps
\* ------------------------------------------------------------------------
MaxGrid == 3
MaxSamples == 2

\* Coordinates are in units of 1/Scale (thirds for the grid steps,
\* hundredths for the label shift); sizes and alphas are in hundredths.
Scale == 3 * 100

\* component_text_verticalshift = -0.03
InitialShift == 0 - ((3 * Scale) \div 100)

\* CMAP_CATEGORICAL.N, the number of colours of Paired
CMAP_CATEGORICAL_N == 12

\* the signature's defaults
DefaultBackgroundMarkersize == 555
DefaultBackgroundMaskMarkersize == 700
DefaultNContours == 26
background_max_alpha == 70

\* the components of the spec's example, (0,0), (1,0), (0.5,1), in two
\* orders, and a square (0.2..0.8) around a fifth component
Triangle == << <<0, 0>>, <<Scale, 0>>, <<Scale \div 2, Scale>> >>
TriangleTopFirst == << <<Scale \div 2, Scale>>, <<0, 0>>, <<Scale, 0>> >>
SquareAroundOne ==
  << <<Scale \div 5, Scale \div 5>>, <<4 * (Scale \div 5), Scale \div 5>>,
     <<4 * (Scale \div 5), 4 * (Scale \div 5)>>,
     <<Scale \div 5, 4 * (Scale \div 5)>>, <<Scale \div 2, Scale \div 2>> >>

\* (0.2,0.2), (0.8,0.25), (0.75,0.8), (0.25,0.75) around (0.5,0.5): no edge
\* of this hull is vertical or passes through a grid point
Quadrilateral ==
  << <<60, 60>>, <<240, 75>>, <<225, 240>>, <<75, 225>>, <<150, 150>> >>

TextPositions == {"auto", "top", "bottom", "middle"}
AnnotationTypes == {"continuous", "categorical", "binary", "ordinal"}
SampleStates == {1, 2}
AnnotationValues == {NaN, 0, 1, 2}

Cells(shape) == (0..(shape[1] - 1)) \X (0..(shape[2] - 1))

\* the probability grids tried: all zero, and rising with i + j
ProbabilityGrids(shape) ==
  { [ij \in Cells(shape) |-> 0], [ij \in Cells(shape) |-> ij[1] + ij[2]] }

\* the state grids tried: all 0, all 1, and 1 and 2 alternating
StateGrids(shape) ==
  { [ij \in Cells(shape) |-> 0], [ij \in Cells(shape) |-> 1],
    [ij \in Cells(shape) |-> 1 + ((ij[1] + ij[2]) % 2)] }

\* faulty variant: linspace without the endpoint
linspace_NoEndpoint(num) ==
  [k \in 1..num |-> ((k - 1) * Scale) \div num]

\* numpy.linspace(0, 1, num): num points, step 1 / (num - 1), the last one
\* set to 1 when num > 1; the single point 0 when num = 1
linspace(num) ==
  [k \in 1..num |->
     IF num = 1 THEN 0
     ELSE IF k = num THEN Scale
     ELSE ((k - 1) * Scale) \div (num - 1)]

\* sorted(set(states))
unique_states(st) == Unique(SetOf(st))

\* ---- ConvexHull(component_coordinates) and Path(...).contains_point ----
Cross(a, b, q) ==
  (b[1] - a[1]) * (q[2] - a[2]) - (b[2] - a[2]) * (q[1] - a[1])

\* the hull's edges, counter-clockwise: all components lie to the left
HullEdges(cs) ==
  { e \in SetOf(cs) \X SetOf(cs) :
      e[1] # e[2] /\ \A q \in SetOf(cs) : Cross(e[1], e[2], q) >= 0 }

StrictlyInside(region, q) == \A e \in region : Cross(e[1], e[2], q) > 0

OnBoundary(region, q) ==
  /\ \A e \in region : Cross(e[1], e[2], q) >= 0
  /\ \E e \in region : Cross(e[1], e[2], q) = 0

\* matplotlib's test counts the hull edges that a ray from q crosses, and an
\* edge counts only when its two ends lie on different sides of q's height
\* (vy >= qy for one end, not for the other).  No edge does for a point at
\* the hull's lowest height, so such a point is never contained.
AtLowestY(region, q) == \A e \in region : e[1][2] >= q[2] /\ e[2][2] >= q[2]

\* faulty variant: every point of the boundary counts as contained
contains_point_Inclusive(region, bnd, q) ==
  StrictlyInside(region, q) \/ OnBoundary(region, q)

\* convexhull_region.contains_point(q).  matplotlib leaves the answer for
\* the other points of the boundary undefined: `bnd` is the set of boundary
\* points it accepts in this run.
contains_point(region, bnd, q) ==
  \/ StrictlyInside(region, q)
  \/ (OnBoundary(region, q) /\ ~AtLowestY(region, q) /\ q \in bnd)

\* the points plot_onco_gps may hand to contains_point
GridPoints(shape) ==
  { <<linspace(shape[1])[ij[1] + 1], linspace(shape[2])[ij[2] + 1]>> :
      ij \in Cells(shape) }

LabelPoints(cs) ==
  { <<cs[i][1], cs[i][2] + d>> : i \in DOMAIN cs, d \in {InitialShift, 0 - InitialShift} }

BoundaryChoices(cs, shape) ==
  LET region == HullEdges(cs)
  IN  SUBSET { q \in GridPoints(shape) \cup LabelPoints(cs) :
                 OnBoundary(region, q) /\ ~AtLowestY(region, q) }

\* the grids and the sample of the spec's example: 2x2, all zero; state 1
ExampleShape == <<2, 2>>
ExampleGrid == [ij \in Cells(ExampleShape) |-> 0]

OncoStart ==
  /\ x_grids = <<>> /\ y_grids = <<>> /\ convexhull_region = {}
  /\ component_text_verticalshift = 0
  /\ texts = <<>> /\ layers = {} /\ states_color = <<>> /\ backgrounds = <<>>
  /\ masks = {} /\ markers = <<>> /\ legend = "none"
  /\ opc = "grids" /\ oerr = NoError

\* calls that vary the components, the label position and the contours
InitOncoLabels ==
  /\ component_coordinates \in {Triangle, TriangleTopFirst, SquareAroundOne}
  /\ component_text_position \in TextPositions
  /\ n_contours \in {0, DefaultNContours}
  /\ grid_shape = ExampleShape
  /\ grid_probabilities = ExampleGrid
  /\ grid_states = ExampleGrid
  /\ states = <<1>>
  /\ annotations = <<>>
  /\ annotation_type = "continuous"
  /\ background_markersize = DefaultBackgroundMarkersize
  /\ background_mask_markersize = DefaultBackgroundMaskMarkersize

\* calls that vary the grids and the two marker sizes
InitOncoGrid ==
  /\ component_coordinates \in {Triangle, Quadrilateral}
  /\ component_text_position = "auto"
  /\ n_contours = DefaultNContours
  /\ grid_shape \in (1..MaxGrid) \X (1..MaxGrid)
  /\ grid_probabilities \in ProbabilityGrids(grid_shape)
  /\ grid_states \in StateGrids(grid_shape)
  /\ states \in {<<1>>, <<1, 2>>}
  /\ annotations = <<>>
  /\ annotation_type = "continuous"
  /\ background_markersize \in {0, DefaultBackgroundMarkersize}
  /\ background_mask_markersize \in {0, DefaultBackgroundMaskMarkersize}

\* calls that vary the samples, the annotations and the annotation type
InitOncoSamples ==
  /\ component_coordinates = Triangle
  /\ component_text_position = "auto"
  /\ n_contours = DefaultNContours
  /\ grid_shape = ExampleShape
  /\ grid_probabilities = ExampleGrid
  /\ grid_states = ExampleGrid
  /\ \E n \in 1..MaxSamples :
       /\ states \in [1..n -> SampleStates]
       /\ annotations \in {<<>>} \cup [1..n -> AnnotationValues]
  /\ annotation_type \in AnnotationTypes
  /\ background_markersize = DefaultBackgroundMarkersize
  /\ background_mask_markersize = DefaultBackgroundMaskMarkersize

InitOnco ==
  /\ DropIdle /\ PivotIdle /\ SyncIdle /\ AxesIdle
  /\ (InitOncoLabels \/ InitOncoGrid \/ InitOncoSamples)
  /\ boundary \in BoundaryChoices(component_coordinates, grid_shape)
  /\ OncoStart

\* faulty variant: the triangulation drawn at the contours' z-order
zorder_DelaunayAmongContours(element) ==
  CASE element = "background" -> 1
    [] element = "contour" -> 2
    [] element = "mask" -> 3
    [] element = "delaunay" -> 2
    [] element = "sample" -> 5
    [] element \in {"component", "text"} -> 6

\* the zorder= argument of each draw call on ax_map (lines 218, 237, 242,
\* 247, 267, 274, 312 and 360)
zorder(element) ==
  CASE element = "background" -> 1
    [] element = "contour" -> 2
    [] element = "mask" -> 3
    [] element = "delaunay" -> 4
    [] element = "sample" -> 5
    [] element \in {"component", "text"} -> 6

\* lines 185-223: unique_states, the grid axes, the figure, the title, the
\* component markers, the hull
OncoGrids ==
  /\ opc = "grids"
  /\ x_grids' = linspace(grid_shape[1])
  /\ y_grids' = linspace(grid_shape[2])
  /\ convexhull_region' = HullEdges(component_coordinates)
  /\ layers' = layers \cup {<<"component", zorder("component")>>}
  /\ component_text_verticalshift' = InitialShift
  /\ opc' = "labels"
  /\ UNCHANGED <<texts, states_color, backgrounds, masks, markers, legend, oerr>>
  /\ UNCHANGED <<oncoArgs, dropVars, pivotVars, syncVars, axesVars>>

\* faulty variant: "auto" never flips the shift
ShiftFor_NeverFlips(position, cs, region, bnd, i, shift) ==
  IF position = "top" THEN 0 - shift ELSE shift

\* the shift after the if/elif chain of the label loop, for component i
ShiftFor(position, cs, region, bnd, i, shift) ==
  IF position = "auto"
  THEN (IF contains_point(region, bnd, <<cs[i][1], cs[i][2] + shift>>)
        THEN 0 - shift ELSE shift)
  ELSE IF position = "top" THEN 0 - shift
  ELSE shift

\* one iteration of the label loop (lines 224-237)
OncoLabel ==
  /\ opc = "labels"
  /\ Len(texts) < Len(component_coordinates)
  /\ LET i == Len(texts) + 1
         shift == ShiftFor(component_text_position, component_coordinates,
                           convexhull_region, boundary, i,
                           component_text_verticalshift)
     IN  /\ component_text_verticalshift' = shift
         /\ texts' = Append(texts, <<component_coordinates[i][1],
                                     component_coordinates[i][2] + shift>>)
  /\ layers' = layers \cup {<<"text", zorder("text")>>}
  /\ UNCHANGED <<x_grids, y_grids, convexhull_region, states_color, backgrounds, masks, markers,
                 legend, opc, oerr>>
  /\ UNCHANGED <<oncoArgs, dropVars, pivotVars, syncVars, axesVars>>

\* lines 239-242: the Delaunay triangulation
OncoDelaunay ==
  /\ opc = "labels"
  /\ Len(texts) = Len(component_coordinates)
  /\ layers' = layers \cup {<<"delaunay", zorder("delaunay")>>}
  /\ opc' = "contour"
  /\ UNCHANGED <<x_grids, y_grids, convexhull_region, component_text_verticalshift, texts,
                 states_color, backgrounds, masks, markers, legend, oerr>>
  /\ UNCHANGED <<oncoArgs, dropVars, pivotVars, syncVars, axesVars>>

\* lines 244-247: the contours
OncoContour ==
  /\ opc = "contour"
  /\ layers' = IF n_contours > 0 THEN layers \cup {<<"contour", zorder("contour")>>} ELSE layers
  /\ opc' = "colors"
  /\ UNCHANGED <<x_grids, y_grids, convexhull_region, component_text_verticalshift, texts,
                 states_color, backgrounds, masks, markers, legend, oerr>>
  /\ UNCHANGED <<oncoArgs, dropVars, pivotVars, syncVars, axesVars>>

\* CMAP_CATEGORICAL(int(s / len(unique_states) * CMAP_CATEGORICAL.N)): the
\* colour is kept as the index handed to the colormap
StateColor(s, st) ==
  <<"categorical", (s * CMAP_CATEGORICAL_N) \div Len(unique_states(st))>>

\* lines 249-253: the state -> colour table
OncoStatesColor ==
  /\ opc = "colors"
  /\ states_color' = [s \in SetOf(states) |-> StateColor(s, states)]
  /\ opc' = "background"
  /\ UNCHANGED <<x_grids, y_grids, convexhull_region, component_text_verticalshift, texts,
                 layers, backgrounds, masks, markers, legend, oerr>>
  /\ UNCHANGED <<oncoArgs, dropVars, pivotVars, syncVars, axesVars>>

\* the answer of the region test for grid cell <<i, j>>
CellContained(region, bnd, xs, ys, ij) ==
  contains_point(region, bnd, <<xs[ij[1] + 1], ys[ij[2] + 1]>>)

\* the order of the loops `for i ...: for j ...`
Before(ij, kl) == ij[1] < kl[1] \/ (ij[1] = kl[1] /\ ij[2] < kl[2])

\* faulty variant: background_max_alpha * (p - min) / range
Alpha_Rescaled(p, lo, hi) ==
  IF hi = lo THEN <<background_max_alpha, 100>>
  ELSE <<background_max_alpha * (p - lo), 100 * (hi - lo)>>

\* min(background_max_alpha, (p - min) / range), as <<numerator, denominator>>.
\* With range = 0 the quotient is nan and min(...) keeps its first argument.
Alpha(p, lo, hi) ==
  IF hi = lo THEN <<background_max_alpha, 100>>
  ELSE IF 100 * (p - lo) > background_max_alpha * (hi - lo)
       THEN <<background_max_alpha, 100>>
       ELSE <<p - lo, hi - lo>>

Min(S) == CHOOSE m \in S : \A v \in S : m <= v
Max(S) == CHOOSE m \in S : \A v \in S : m >= v

\* the cells the background loop looks up a colour for
BackgroundCells(size, region, bnd, xs, ys, shape) ==
  IF size > 0
  THEN {ij \in Cells(shape) : CellContained(region, bnd, xs, ys, ij)}
  ELSE {}

\* lines 255-267: the background squares.  states_color[grid_states[i, j]]
\* raises KeyError for a state no sample has; the squares before it are drawn.
OncoBackground ==
  /\ opc = "background"
  /\ LET inside == BackgroundCells(background_markersize, convexhull_region,
                                   boundary, x_grids, y_grids, grid_shape)
         bad == {ij \in inside : grid_states[ij] \notin DOMAIN states_color}
         drawn == {ij \in inside : \A b \in bad : Before(ij, b)}
         values == {grid_probabilities[ij] : ij \in Cells(grid_shape)}
     IN  /\ backgrounds' =
              [ij \in drawn |->
                 [c |-> states_color[grid_states[ij]],
                  a |-> Alpha(grid_probabilities[ij], Min(values), Max(values))]]
         /\ layers' = IF drawn # {} THEN layers \cup {<<"background", zorder("background")>>}
                                    ELSE layers
         /\ IF bad # {}
            THEN opc' = "raised" /\ oerr' = "KeyError"
            ELSE opc' = "mask" /\ oerr' = oerr
  /\ UNCHANGED <<x_grids, y_grids, convexhull_region, component_text_verticalshift, texts,
                 states_color, masks, markers, legend>>
  /\ UNCHANGED <<oncoArgs, dropVars, pivotVars, syncVars, axesVars>>

\* faulty variant: the mask loop with the test not negated
MaskCells_NotNegated(size, region, bnd, xs, ys, shape) ==
  IF size > 0
  THEN {ij \in Cells(shape) : CellContained(region, bnd, xs, ys, ij)}
  ELSE {}

\* the cells the mask loop draws
MaskCells(size, region, bnd, xs, ys, shape) ==
  IF size > 0
  THEN {ij \in Cells(shape) : ~CellContained(region, bnd, xs, ys, ij)}
  ELSE {}

\* lines 268-274: the mask squares
OncoMask ==
  /\ opc = "mask"
  /\ masks' = MaskCells(background_mask_markersize, convexhull_region,
                        boundary, x_grids, y_grids, grid_shape)
  /\ layers' = IF masks' # {} THEN layers \cup {<<"mask", zorder("mask")>>} ELSE layers
  /\ opc' = "samples"
  /\ UNCHANGED <<x_grids, y_grids, convexhull_region, component_text_verticalshift, texts,
                 states_color, backgrounds, markers, legend, oerr>>
  /\ UNCHANGED <<oncoArgs, dropVars, pivotVars, syncVars, axesVars>>

\* any(annotations): some value is truthy; 0 is not, nan is
any(an) == \E i \in DOMAIN an : an[i] # 0

Present(an) == {an[i] : i \in DOMAIN an} \ {NaN}

\* the colour of the marker of a sample with annotation v (lines 280-309).
\* continuous: the colormap at the standardised, clipped value of v;
\* categorical, binary: the colormap at (v - annotation_min) /
\* annotation_range, with annotation_min = 0 and annotation_max = int(max)
AnnotationColor(type, an, v) ==
  IF v = NaN THEN <<"sample_without_annotation", <<0, 1>> >>
  ELSE IF type = "continuous" THEN <<"continuous", <<v, 1>> >>
  ELSE <<type, <<v - 0, Max(Present(an)) - 0>> >>

\* the exception of the annotation set-up (lines 286-296), if any: int(nan)
\* when no annotation is present, the unknown annotation_type otherwise
AnnotationError(type, an) ==
  IF type = "continuous" THEN NoError
  ELSE IF Present(an) = {} THEN "ValueError"
  ELSE IF type \notin {"categorical", "binary"} THEN "ValueError"
  ELSE NoError

\* lines 276-312 and 354-360: the sample markers
OncoSamples ==
  /\ opc = "samples"
  /\ IF any(annotations)
     THEN IF AnnotationError(annotation_type, annotations) # NoError
          THEN /\ opc' = "raised"
               /\ oerr' = AnnotationError(annotation_type, annotations)
               /\ UNCHANGED <<markers, layers>>
          ELSE /\ markers' =
                    [k \in DOMAIN states |->
                       [by |-> "annotation",
                        c |-> AnnotationColor(annotation_type, annotations,
                                              annotations[k])]]
               /\ layers' = layers \cup {<<"sample", zorder("sample")>>}
               /\ opc' = "legend"
               /\ oerr' = oerr
     ELSE /\ markers' = [k \in DOMAIN states |->
                           [by |-> "state", c |-> states_color[states[k]]]]
          /\ layers' = layers \cup {<<"sample", zorder("sample")>>}
          /\ opc' = "legend"
          /\ oerr' = oerr
  /\ UNCHANGED <<x_grids, y_grids, convexhull_region, component_text_verticalshift, texts,
                 states_color, backgrounds, masks, legend>>
  /\ UNCHANGED <<oncoArgs, dropVars, pivotVars, syncVars, axesVars>>

\* lines 314-352 and 361-372: the legends, then savefig and show
OncoLegend ==
  /\ opc = "legend"
  /\ legend' = IF any(annotations) THEN "effect" ELSE "states"
  /\ opc' = "done"
  /\ UNCHANGED <<x_grids, y_grids, convexhull_region, component_text_verticalshift, texts, layers,
                 states_color, backgrounds, masks, markers, oerr>>
  /\ UNCHANGED <<oncoArgs, dropVars, pivotVars, syncVars, axesVars>>

NextOnco ==
  \/ OncoGrids \/ OncoLabel \/ OncoDelaunay \/ OncoContour \/ OncoStatesColor
  \/ OncoBackground \/ OncoMask \/ OncoSamples \/ OncoLegend

SpecOnco == InitOnco /\ [][NextOnco]_vars

\* ------------------------------------------------------------------------
\* Properties of drop_axes_label
\* ------------------------------------------------------------------------

\* C1: axis pruning is idempotent: drop_axes_label applied, with the same
\* thresholds, to a table drop_axes_label returned returns that table (same
\* row labels, same column labels, same cells), dropping nothing more.
C1_Idempotent ==
  (call = 2 /\ dpc # "loop") =>
     (dpc = "returned" /\ <<dfRows, dfCols>> = first)

\* ------------------------------------------------------------------------
\* Properties of pivot
\* ------------------------------------------------------------------------

\* the values of the triples with keys (r, c), in input order
RECURSIVE ValuesOf(_, _, _)
ValuesOf(r, c, n) ==
  IF n = 0 THEN <<>>
  ELSE IF triples[n][1] = r /\ triples[n][2] = c
       THEN Append(ValuesOf(r, c, n - 1), triples[n][3])
       ELSE ValuesOf(r, c, n - 1)

\* the left fold of the reducer f over a non-empty sequence of values
RECURSIVE FoldLeft(_, _)
FoldLeft(f, vals) ==
  IF Len(vals) = 1 THEN vals[1]
  ELSE Apply(f, FoldLeft(f, SubSeq(vals, 1, Len(vals) - 1)), vals[Len(vals)])

\* the cell the claim expects for keys (r, c): missing without a triple
Folded(f, r, c) ==
  LET vals == ValuesOf(r, c, Len(triples))
  IN  IF vals = <<>> THEN NaN ELSE FoldLeft(f, vals)

HasDuplicateKey ==
  \E i, j \in DOMAIN triples :
    i < j /\ triples[i][1] = triples[j][1] /\ triples[i][2] = triples[j][2]

\* C3: pivot combines duplicates through the reducer: every cell (r, c) of
\* the returned table is the left fold of the reducer over the values of the
\* triples with keys (r, c), in input order, and a cell without a triple is
\* missing.
C3_CellsAreFolds ==
  (ppc = "returned" /\ function # None) =>
     \A i \in DOMAIN axis_0_labels, j \in DOMAIN axis_1_labels :
        matrix[<<i - 1, j - 1>>] = Folded(function, axis_0_labels[i], axis_1_labels[j])

\* C4: without a reducer (function = None), pivot never returns a table for
\* an input with two triples of the same (row-key, col-key) pair, whatever
\* values the triples carry.
C4_NoReducerDuplicateIsFatal ==
  (function = None /\ HasDuplicateKey) => ppc # "returned"

\* ------------------------------------------------------------------------
\* Properties of sync_axis
\* ------------------------------------------------------------------------

\* C5: sync_axis with "intersection" keeps a label only if every input
\* table has it: when the call returns, every returned table has the axis
\* `labels`, and every label of it is a label of every input table.
C5_IntersectionInAll ==
  (spc = "returned" /\ method = "intersection") =>
     /\ \A k \in DOMAIN synced : synced[k].axis = labels
     /\ \A l \in SetOf(labels) :
          \A k \in DOMAIN dataframes : l \in SetOf(dataframes[k])

\* an intersection that returned a non-empty axis and dropped a label
C5_Witness ==
  /\ spc = "returned" /\ method = "intersection"
  /\ Len(dataframes) = 2
  /\ labels # <<>>
  /\ \E l \in SetOf(dataframes[1]) : l \notin SetOf(labels)

DisjointPair ==
  /\ Len(dataframes) = 2
  /\ SetOf(dataframes[1]) \cap SetOf(dataframes[2]) = {}

\* C6: for two tables with disjoint labels on the synced axis, the tables
\* "union" returns have an axis as long as the two original axes together,
\* and the tables "intersection" returns have an empty axis.
C6_DisjointUnionIntersection ==
  (spc = "returned" /\ DisjointPair) =>
     \A k \in DOMAIN synced :
        /\ method = "union" =>
             Len(synced[k].axis) = Len(dataframes[1]) + Len(dataframes[2])
        /\ method = "intersection" => synced[k].axis = <<>>

\* a union of two non-empty disjoint tables that returned
C6_Witness ==
  /\ spc = "returned" /\ DisjointPair /\ method = "union"
  /\ dataframes[1] # <<>> /\ dataframes[2] # <<>>
  /\ Len(synced) = 2

\* ------------------------------------------------------------------------
\* Properties of error_axes
\* ------------------------------------------------------------------------

HasMissingLabel(q) == \E i \in DOMAIN q : q[i] = NaN
HasRepeatedLabel(q) == \E i, j \in DOMAIN q : i # j /\ q[i] = q[j]

\* C7: error_axes fails an assertion if and only if the row labels or the
\* column labels contain a missing label or a label occurring more than
\* once; a table with complete, unique labels on both axes passes.
C7_ErrorAxesIff ==
  /\ epc = "raised" =>
       \E a \in {1, 2} : HasMissingLabel(frame[a]) \/ HasRepeatedLabel(frame[a])
  /\ epc = "passed" =>
       \A a \in {1, 2} : ~HasMissingLabel(frame[a]) /\ ~HasRepeatedLabel(frame[a])
  /\ epc = "columns" =>
       ~HasMissingLabel(frame[1]) /\ ~HasRepeatedLabel(frame[1])

\* the row labels pass and a repeated column label fails the assertion
C7_Witness ==
  /\ epc = "raised"
  /\ frame[1] # <<>>
  /\ ~HasMissingLabel(frame[1]) /\ ~HasRepeatedLabel(frame[1])
  /\ ~HasMissingLabel(frame[2]) /\ HasRepeatedLabel(frame[2])

\* ------------------------------------------------------------------------
\* Properties of plot_onco_gps
\* ------------------------------------------------------------------------

AxesComputed == opc \notin {"idle", "grids"}
PastMask == opc \in {"samples", "legend", "done"}

Increasing(q) == \A k \in 1..(Len(q) - 1) : q[k] < q[k + 1]

\* C8 (as claimed): for every grid shape (r, c) with r, c >= 1 the axes
\* have r and c points, are strictly increasing, start at 0 and end at 1.
C8_AxesSpanUnitInterval ==
  AxesComputed =>
     /\ Len(x_grids) = grid_shape[1] /\ Len(y_grids) = grid_shape[2]
     /\ Increasing(x_grids) /\ Increasing(y_grids)
     /\ x_grids[1] = 0 /\ x_grids[Len(x_grids)] = Scale
     /\ y_grids[1] = 0 /\ y_grids[Len(y_grids)] = Scale

\* C8 (amended): the axes have r and c points, are strictly increasing and
\* start at 0; an axis of two or more points ends at 1, and an axis of one
\* point is the single point 0.
C8_AxesSpanFromTwoPoints ==
  AxesComputed =>
     /\ Len(x_grids) = grid_shape[1] /\ Len(y_grids) = grid_shape[2]
     /\ Increasing(x_grids) /\ Increasing(y_grids)
     /\ x_grids[1] = 0 /\ y_grids[1] = 0
     /\ Len(x_grids) >= 2 => x_grids[Len(x_grids)] = Scale
     /\ Len(y_grids) >= 2 => y_grids[Len(y_grids)] = Scale
     /\ Len(x_grids) = 1 => x_grids = <<0>>
     /\ Len(y_grids) = 1 => y_grids = <<0>>

\* axes of three and of two points have been computed
C8_Witness ==
  AxesComputed /\ grid_shape = <<3, 2>> /\ x_grids[2] * 2 = Scale

\* C2 (as claimed): every grid cell is drawn as a background square or as
\* a mask square, never as both and never as neither.
C2_EveryCellExactlyOne ==
  PastMask =>
     \A ij \in Cells(grid_shape) : (ij \in DOMAIN backgrounds) # (ij \in masks)

\* C2 (amended): no cell is drawn both as a background square and as a mask
\* square; the region test accepts every background cell and no mask cell;
\* and once the mask stage is over, the two sets cover the grid if both
\* marker sizes are positive, while a size of 0 leaves its set empty.
C2_DisjointAndCoverWhenEnabled ==
  /\ DOMAIN backgrounds \cap masks = {}
  /\ \A ij \in DOMAIN backgrounds :
       CellContained(convexhull_region, boundary, x_grids, y_grids, ij)
  /\ \A ij \in masks :
       ~CellContained(convexhull_region, boundary, x_grids, y_grids, ij)
  /\ PastMask =>
       /\ (background_markersize > 0 /\ background_mask_markersize > 0)
            => DOMAIN backgrounds \cup masks = Cells(grid_shape)
       /\ background_markersize = 0 => DOMAIN backgrounds = {}
       /\ background_mask_markersize = 0 => masks = {}

\* both stages ran and each drew some cell
C2_Witness ==
  /\ opc = "done"
  /\ background_markersize > 0 /\ background_mask_markersize > 0
  /\ DOMAIN backgrounds # {} /\ masks # {}

\* C9: an unrecognized annotation_type or component_text_position ends the
\* call with a ValueError: no such call runs to completion.
C9_UnrecognizedStringRaises ==
  (\/ component_text_position \notin {"auto", "top", "bottom"}
   \/ annotation_type \notin {"continuous", "categorical", "binary"})
     => opc # "done"

\* C10: when annotation values are supplied (a non-empty sequence, whatever
\* the values), every sample is coloured by its annotation and the effect
\* legend is drawn; samples are coloured by state only without annotations.
C10_AnnotationsDecideColouring ==
  opc = "done" =>
     /\ annotations # <<>> =>
          /\ \A k \in DOMAIN markers : markers[k].by = "annotation"
          /\ legend = "effect"
     /\ annotations = <<>> =>
          /\ \A k \in DOMAIN markers : markers[k].by = "state"
          /\ legend = "states"

\* the call of the example: components (0,0), (1,0), (0.5,1), one sample of
\* state 1, 2x2 all-zero grids, every other argument at its default
IsExampleCall ==
  /\ component_coordinates = Triangle /\ states = <<1>>
  /\ grid_shape = ExampleShape
  /\ grid_probabilities = ExampleGrid /\ grid_states = ExampleGrid
  /\ annotations = <<>> /\ annotation_type = "continuous"
  /\ component_text_position = "auto" /\ n_contours = DefaultNContours
  /\ background_markersize = DefaultBackgroundMarkersize
  /\ background_mask_markersize = DefaultBackgroundMaskMarkersize

\* C11: the example call never raises: once the state -> colour table is
\* built, the state of every grid cell the background loop looks up is one
\* of its keys; and the sample's marker has the table's colour for state 1.
C11_ExampleCompletes ==
  IsExampleCall =>
     /\ opc # "raised" /\ oerr = NoError
     /\ opc \in {"background", "mask", "samples", "legend", "done"} =>
          \A ij \in BackgroundCells(background_markersize, convexhull_region,
                                    boundary, x_grids, y_grids, grid_shape) :
             grid_states[ij] \in DOMAIN states_color
     /\ opc \in {"legend", "done"} =>
          /\ DOMAIN markers = {1}
          /\ markers[1].by = "state"
          /\ markers[1].c = states_color[1]
          /\ markers[1].c = <<"categorical", CMAP_CATEGORICAL_N>>

\* the example call has run to its end
C11_Witness ==
  /\ IsExampleCall /\ opc = "done" /\ legend = "states"
  /\ masks = Cells(grid_shape) /\ markers[1].c = states_color[1]

DensityElements == {"background", "contour", "mask"}
StructuralElements == {"delaunay", "sample", "component", "text"}

\* C12: every layer drawn has its fixed z-order (background 1, contour 2,
\* mask 3, sample markers 5, component markers and labels 6), and every
\* triangulation, sample, component or label layer lies strictly above
\* every background, contour and mask layer, with or without annotations.
C12_FixedZOrder ==
  /\ \A l \in layers :
       /\ l[1] \in DensityElements \cup StructuralElements
       /\ l[1] = "background" => l[2] = 1
       /\ l[1] = "contour" => l[2] = 2
       /\ l[1] = "mask" => l[2] = 3
       /\ l[1] = "sample" => l[2] = 5
       /\ l[1] \in {"component", "text"} => l[2] = 6
  /\ \A l, m \in layers :
       (l[1] \in StructuralElements /\ m[1] \in DensityElements) => l[2] > m[2]

\* a finished call that drew every kind of layer
C12_Witness ==
  /\ opc = "done"
  /\ {l[1] : l \in layers} = DensityElements \cup StructuralElements

\* a finished call that coloured the samples by annotation, over a mask
C12_WitnessAnnotated ==
  /\ opc = "done" /\ legend = "effect"
  /\ {"mask", "contour", "sample", "delaunay"} \subseteq {l[1] : l \in layers}

\* ------------------------------------------------------------------------
\* Further properties of drop_axes_label
\* ------------------------------------------------------------------------

\* the rows and columns of the table drop_axes_label was called with
InputRows == {rc[1] : rc \in DOMAIN cell}
InputCols == {rc[2] : rc \in DOMAIN cell}

\* the populated cells, and the distinct populated values, of row r over
\* the columns cs; of column c over the rows rs
RowGood(r, cs) == {c \in cs : cell[<<r, c>>] # NaN}
ColGood(c, rs) == {r \in rs : cell[<<r, c>>] # NaN}
RowValues(r, cs) == {cell[<<r, c>>] : c \in RowGood(r, cs)}
ColValues(c, rs) == {cell[<<r, c>>] : r \in ColGood(c, rs)}

\* threshold th (None, a fraction of the length n, or a count) allows k
Allows(th, n, k) ==
  \/ th = None
  \/ (th # None /\ th[1] < th[2] /\ th[1] * n <= k * th[2])
  \/ (th # None /\ th[1] >= th[2] /\ th[1] <= k * th[2])

\* row r (column c) passes both thresholds in the table rs x cs
RowPasses(r, rs, cs) ==
  /\ Allows(mgv, Card(cs), Card(RowGood(r, cs)))
  /\ Allows(mguv, Card(cs), Card(RowValues(r, cs)))
ColPasses(c, rs, cs) ==
  /\ Allows(mgv, Card(rs), Card(ColGood(c, rs)))
  /\ Allows(mguv, Card(rs), Card(ColValues(c, rs)))

\* C13: the table drop_axes_label returns is a fixed point of both passes:
\* each of its rows passes the thresholds against its columns and each of
\* its columns passes them against its rows.
C13_ReturnedIsFixedPoint ==
  dpc = "returned" =>
     /\ \A r \in dfRows : RowPasses(r, dfRows, dfCols)
     /\ \A c \in dfCols : ColPasses(c, dfRows, dfCols)

\* a returned, non-empty table that is smaller than the input
C13_Witness ==
  /\ dpc = "returned" /\ call = 1
  /\ dfRows # {} /\ dfCols # {}
  /\ (dfRows # InputRows \/ dfCols # InputCols)

IsFraction(th) == th # None /\ th[1] < th[2]

\* C16: in every pass that has a fractional threshold, the labels kept are
\* those that pass with the fraction taken of the length of the opposite
\* axis of the table as it is when the pass starts.
C16_FractionOfCurrentLength ==
  [][ ( /\ dpc = "loop" /\ passes' = passes + 1 /\ dpc' # "raised"
        /\ (IsFraction(mgv) \/ IsFraction(mguv)) )
      => IF axis = 0
         THEN /\ dfRows' = {r \in dfRows : RowPasses(r, dfRows, dfCols)}
              /\ dfCols' = dfCols
         ELSE /\ dfCols' = {c \in dfCols : ColPasses(c, dfRows, dfCols)}
              /\ dfRows' = dfRows ]_vars

\* after a pass over the rows of a table that has lost a column: a row is
\* kept that the fraction of the input's number of columns would drop
C16_Witness ==
  /\ call = 1 /\ passes >= 2 /\ dpc \in {"loop", "returned"}
  /\ IsFraction(mgv) /\ mguv = None
  /\ Card(dfCols) < Card(InputCols)
  /\ \E r \in dfRows :
       ~(mgv[1] * Card(InputCols) <= Card(RowGood(r, dfCols)) * mgv[2])

\* C19: called on a table that has rows, with at least one threshold given,
\* drop_axes_label never ends by raising; it returns after at least two
\* passes and runs at most rows + columns + 2 passes.
C19_AlwaysReturns ==
  (call = 1 /\ (mgv # None \/ mguv # None) /\ InputRows # {}) =>
     /\ dpc # "raised"
     /\ passes <= Card(InputRows) + Card(InputCols) + 2
     /\ dpc = "returned" => passes >= 2

\* ------------------------------------------------------------------------
\* Further properties of plot_onco_gps
\* ------------------------------------------------------------------------

\* the vertical offset of the label of component i from its marker
LabelOffset(i) == texts[i][2] - component_coordinates[i][2]

\* C14: with "top" every label drawn is above its marker by the same
\* offset, with "bottom" every label is below it by the same offset,
\* whatever the component's place in the loop.
C14_TopBottomOneSign ==
  /\ component_text_position = "top" =>
       \A i \in DOMAIN texts : LabelOffset(i) = 0 - InitialShift
  /\ component_text_position = "bottom" =>
       \A i \in DOMAIN texts : LabelOffset(i) = InitialShift

\* the components that are vertices of the hull
HullVertices(region) == {e[1] : e \in region}

\* C15: with "auto", the label of every component that is a vertex of the
\* hull is drawn at a position the region test does not accept (and that
\* is not inside the hull), whatever shift the earlier components left.
C15_AutoLabelsOutside ==
  component_text_position = "auto" =>
     \A i \in DOMAIN texts :
        component_coordinates[i] \in HullVertices(convexhull_region) =>
           /\ ~contains_point(convexhull_region, boundary, texts[i])
           /\ ~StrictlyInside(convexhull_region, texts[i])

\* all labels drawn; a vertex's label was flipped above its marker after
\* an earlier vertex's label had stayed below
C15_Witness ==
  /\ component_text_position = "auto" /\ opc = "done"
  /\ \E i, j \in DOMAIN texts :
       /\ i < j
       /\ {component_coordinates[i], component_coordinates[j]}
             \subseteq HullVertices(convexhull_region)
       /\ LabelOffset(i) = InitialShift
       /\ LabelOffset(j) = 0 - InitialShift

GridMin == Min({grid_probabilities[ij] : ij \in Cells(grid_shape)})
GridMax == Max({grid_probabilities[ij] : ij \in Cells(grid_shape)})

\* C17 (as claimed): when max > min, each background square's alpha <<n, d>>
\* is background_max_alpha * (p - min) / (max - min), so only a cell at the
\* global maximum has alpha background_max_alpha, and cells of different
\* probability have different alphas.
C17_AlphaIsRescaled ==
  (grid_shape # <<0, 0>> /\ GridMax > GridMin) =>
     /\ \A ij \in DOMAIN backgrounds :
          backgrounds[ij].a[1] * 100 * (GridMax - GridMin)
            = backgrounds[ij].a[2] * background_max_alpha
                * (grid_probabilities[ij] - GridMin)
     /\ \A ij \in DOMAIN backgrounds :
          backgrounds[ij].a[1] * 100
            = backgrounds[ij].a[2] * background_max_alpha
              => grid_probabilities[ij] = GridMax
     /\ \A ij, kl \in DOMAIN backgrounds :
          grid_probabilities[ij] # grid_probabilities[kl] =>
             backgrounds[ij].a[1] * backgrounds[kl].a[2]
               # backgrounds[kl].a[1] * backgrounds[ij].a[2]

\* C17 (amended): when max > min, each background square's alpha is the
\* smaller of background_max_alpha and (p - min) / (max - min): 0 at the
\* global minimum, the normalised probability itself while that is below
\* background_max_alpha, and background_max_alpha for every cell at or
\* above it.
C17_AlphaIsCapped ==
  (grid_shape # <<0, 0>> /\ GridMax > GridMin) =>
     \A ij \in DOMAIN backgrounds :
        LET p == grid_probabilities[ij]
            a == backgrounds[ij].a
        IN  /\ a[2] > 0
            /\ 100 * (p - GridMin) >= background_max_alpha * (GridMax - GridMin)
                 => a[1] * 100 = a[2] * background_max_alpha
            /\ 100 * (p - GridMin) < background_max_alpha * (GridMax - GridMin)
                 => a[1] * (GridMax - GridMin) = a[2] * (p - GridMin)
            /\ p = GridMin => a[1] = 0

\* a background square below the cap and above the minimum, and one that
\* is capped although its cell is not at the global maximum
C17_Witness ==
  /\ grid_shape # <<0, 0>> /\ GridMax > GridMin /\ opc = "done"
  /\ \E ij \in DOMAIN backgrounds :
       /\ grid_probabilities[ij] > GridMin
       /\ 100 * (grid_probabilities[ij] - GridMin)
            < background_max_alpha * (GridMax - GridMin)
  /\ \E kl \in DOMAIN backgrounds :
       /\ grid_probabilities[kl] < GridMax
       /\ backgrounds[kl].a[1] * 100 = backgrounds[kl].a[2] * background_max_alpha

ObservedMin == Min(Present(annotations))
ObservedMax == Max(Present(annotations))

\* C18: for categorical and binary annotations with at least two distinct
\* values, the marker of each sample with annotation v is coloured at the
\* colormap position (v - observed min) / (observed max - observed min).
C18_PositionFromObservedRange ==
  ( /\ opc \in {"legend", "done"} /\ any(annotations)
    /\ annotation_type \in {"categorical", "binary"}
    /\ Card(Present(annotations)) >= 2 ) =>
     \A k \in DOMAIN markers :
        annotations[k] # NaN =>
           markers[k].c[2][1] * (ObservedMax - ObservedMin)
             = markers[k].c[2][2] * (annotations[k] - ObservedMin)

====
